---- MODULE Spec2Model ----
(***************************************************************************)
(* Persistence layer of CrewAI Studio (src/app/db_utils.py): the generic   *)
(* entities(id, entity_type, data) table, the JSON mapping of the domain   *)
(* objects, and the loaders that resolve cross-entity references.          *)
(***************************************************************************)
EXTENDS Integers, Sequences, FiniteSets, TLC

(***************************************************************************)
(* Python values.  A dict keeps its items in insertion order.              *)
(***************************************************************************)
PyNone == [t |-> "None"]
PyBool(b) == [t |-> "bool", b |-> b]
PyInt(n) == [t |-> "int", n |-> n]
PyStr(s) == [t |-> "str", s |-> s]
PyList(l) == [t |-> "list", l |-> l]
PyDict(items) == [t |-> "dict", items |-> items]
Item(k, v) == [k |-> k, v |-> v]

\* list of str  <->  plain sequence of strings
StrList(ids) == PyList([i \in 1..Len(ids) |-> PyStr(ids[i])])

HasKey(d, key) == \E i \in 1..Len(d.items) : d.items[i].k = key

\* dict.get(key, default) / dict[key]
DictGet(d, key, default) ==
    IF HasKey(d, key)
    THEN d.items[CHOOSE i \in 1..Len(d.items) : d.items[i].k = key].v
    ELSE default

\* what dict.pop(key, default) leaves behind
DictWithout(d, key) == PyDict(SelectSeq(d.items, LAMBDA it : it.k # key))

DictKeys(d) == {d.items[i].k : i \in 1..Len(d.items)}

(***************************************************************************)
(* JSON text, as the sequence of its lexical tokens.                       *)
(***************************************************************************)
Tok(k) == [tok |-> k]
TokNum(n) == [tok |-> "num", n |-> n]
TokStr(s) == [tok |-> "string", s |-> s]

RECURSIVE json_dumps(_)
RECURSIVE DumpElems(_, _)
RECURSIVE DumpItems(_, _)

DumpElems(l, i) ==
    IF i > Len(l) THEN <<>>
    ELSE (IF i > 1 THEN <<Tok(",")>> ELSE <<>>) \o json_dumps(l[i]) \o DumpElems(l, i + 1)

DumpItems(items, i) ==
    IF i > Len(items) THEN <<>>
    ELSE (IF i > 1 THEN <<Tok(",")>> ELSE <<>>)
         \o <<TokStr(items[i].k), Tok(":")>> \o json_dumps(items[i].v)
         \o DumpItems(items, i + 1)

json_dumps(v) ==
    CASE v.t = "None" -> <<Tok("null")>>
      [] v.t = "bool" -> <<Tok(IF v.b THEN "true" ELSE "false")>>
      [] v.t = "int"  -> <<TokNum(v.n)>>
      [] v.t = "str"  -> <<TokStr(v.s)>>
      [] v.t = "list" -> <<Tok("[")>> \o DumpElems(v.l, 1) \o <<Tok("]")>>
      [] v.t = "dict" -> <<Tok("{")>> \o DumpItems(v.items, 1) \o <<Tok("}")>>

\* The parser returns the value and the index of the first token after it.
RECURSIVE ParseValue(_, _)
RECURSIVE ParseElems(_, _, _)
RECURSIVE ParseItems(_, _, _)

\* a later duplicate key replaces the earlier value in place
PutItem(items, k, v) ==
    IF \E i \in 1..Len(items) : items[i].k = k
    THEN [i \in 1..Len(items) |-> IF items[i].k = k THEN Item(k, v) ELSE items[i]]
    ELSE Append(items, Item(k, v))

ParseElems(toks, i, acc) ==
    IF toks[i].tok = "]" THEN [v |-> PyList(acc), n |-> i + 1]
    ELSE LET e == ParseValue(toks, i)
         IN  IF toks[e.n].tok = ","
             THEN ParseElems(toks, e.n + 1, Append(acc, e.v))
             ELSE [v |-> PyList(Append(acc, e.v)), n |-> e.n + 1]

ParseItems(toks, i, acc) ==
    IF toks[i].tok = "}" THEN [v |-> PyDict(acc), n |-> i + 1]
    ELSE LET e == ParseValue(toks, i + 2)
         IN  IF toks[e.n].tok = ","
             THEN ParseItems(toks, e.n + 1, PutItem(acc, toks[i].s, e.v))
             ELSE [v |-> PyDict(PutItem(acc, toks[i].s, e.v)), n |-> e.n + 1]

ParseValue(toks, i) ==
    LET k == toks[i].tok
    IN  CASE k = "null"   -> [v |-> PyNone, n |-> i + 1]
          [] k = "true"   -> [v |-> PyBool(TRUE), n |-> i + 1]
          [] k = "false"  -> [v |-> PyBool(FALSE), n |-> i + 1]
          [] k = "num"    -> [v |-> PyInt(toks[i].n), n |-> i + 1]
          [] k = "string" -> [v |-> PyStr(toks[i].s), n |-> i + 1]
          [] k = "["      -> ParseElems(toks, i + 1, <<>>)
          [] k = "{"      -> ParseItems(toks, i + 1, <<>>)

json_loads(toks) == ParseValue(toks, 1).v

(***************************************************************************)
(* The entities table: rows (id, entity_type, data) in rowid order.        *)
(***************************************************************************)
Row(id, etype, text) == [id |-> id, entity_type |-> etype, data |-> text]

\* a statement whose conflict clause sets data alone: the row keeps its type
UpsertKeepsType(db, id, etype, text) ==
    IF \E i \in 1..Len(db) : db[i].id = id
    THEN [i \in 1..Len(db) |->
             IF db[i].id = id THEN Row(id, db[i].entity_type, text) ELSE db[i]]
    ELSE Append(db, Row(id, etype, text))

\* a table whose key is (id, entity_type): a row conflicts with a row of its
\* own id and type only
UpsertKeyedByIdAndType(db, id, etype, text) ==
    IF \E i \in 1..Len(db) : db[i].id = id /\ db[i].entity_type = etype
    THEN [i \in 1..Len(db) |->
             IF db[i].id = id /\ db[i].entity_type = etype
             THEN Row(id, etype, text) ELSE db[i]]
    ELSE Append(db, Row(id, etype, text))

\* INSERT ... ON CONFLICT(id) DO UPDATE SET entity_type, data
Upsert(db, id, etype, text) ==
    IF \E i \in 1..Len(db) : db[i].id = id
    THEN [i \in 1..Len(db) |-> IF db[i].id = id THEN Row(id, etype, text) ELSE db[i]]
    ELSE Append(db, Row(id, etype, text))

save_entity(db, entity_type, entity_id, data) ==
    Upsert(db, entity_id, entity_type, json_dumps(data))

\* SELECT id, data FROM entities WHERE entity_type = :etype
load_entities(db, entity_type) ==
    LET rows == SelectSeq(db, LAMBDA r : r.entity_type = entity_type)
    IN  [i \in 1..Len(rows) |-> <<rows[i].id, json_loads(rows[i].data)>>]

\* a statement without the entity_type condition
DeleteById(db, entity_type, entity_id) ==
    SelectSeq(db, LAMBDA r : r.id # entity_id)

\* DELETE FROM entities WHERE id = :id AND entity_type = :etype
delete_entity(db, entity_type, entity_id) ==
    SelectSeq(db, LAMBDA r : ~(r.id = entity_id /\ r.entity_type = entity_type))

\* the file is the parsed JSON array: entities with id, entity_type, data
RECURSIVE ImportFrom(_, _, _)
ImportFrom(db, file, i) ==
    IF i > Len(file) THEN db
    ELSE ImportFrom(Upsert(db, file[i].id, file[i].entity_type, json_dumps(file[i].data)),
                    file, i + 1)

import_from_json(db, file) == ImportFrom(db, file, 1)

export_to_json(db) ==
    [i \in 1..Len(db) |->
        [id |-> db[i].id, entity_type |-> db[i].entity_type, data |-> json_loads(db[i].data)]]

save_tools_state(db, enabled_tools) ==
    save_entity(db, "tools_state", "enabled_tools",
                PyDict(<<Item("enabled_tools", enabled_tools)>>))

load_tools_state(db) ==
    LET rows == load_entities(db, "tools_state")
    IN  IF Len(rows) > 0 THEN DictGet(rows[1][2], "enabled_tools", PyDict(<<>>))
        ELSE PyDict(<<>>)

(***************************************************************************)
(* Loaders.  A call either returns a value or raises.  Every object a      *)
(* loader builds carries in obj the call that built it, so that two        *)
(* objects of one id built by different calls are different objects.       *)
(* Scalar attributes that are copied to and from the JSON unchanged (role, *)
(* goal, description, name, process, ...) are left out of the objects.     *)
(***************************************************************************)
Ok(v) == [ok |-> TRUE, v |-> v]
Raise(e) == [ok |-> FALSE, exc |-> e]

\* an Optional[Sequence] argument: passed, or left at its default None
Arg(v) == [given |-> TRUE, v |-> v]
NoArg == [given |-> FALSE]

\* the names my_tools.TOOL_CLASSES has a class for
TOOL_CLASSES == {"CustomApiTool"}

\* sorted(objs, key=lambda o: o.created_at): stable
RECURSIVE InsertByCreatedAt(_, _)
InsertByCreatedAt(sorted, o) ==
    IF sorted = <<>> THEN <<o>>
    ELSE IF sorted[Len(sorted)].created_at.n <= o.created_at.n THEN Append(sorted, o)
    ELSE Append(InsertByCreatedAt(SubSeq(sorted, 1, Len(sorted) - 1), o), sorted[Len(sorted)])

RECURSIVE SortedFrom(_, _, _)
SortedFrom(objs, i, acc) ==
    IF i > Len(objs) THEN acc ELSE SortedFrom(objs, i + 1, InsertByCreatedAt(acc, objs[i]))

\* a sort that keeps one object of every created_at
SortedDroppingTies(objs) ==
    LET sorted == SortedFrom(objs, 1, <<>>)
        first  == {k \in 1..Len(sorted) :
                      \A j \in 1..(k - 1) : sorted[j].created_at # sorted[k].created_at}
    IN  SelectSeq(sorted, LAMBDA o :
            \E k \in first : sorted[k] = o)

sorted_by_created_at(objs) == SortedFrom(objs, 1, <<>>)

\* {tool.tool_id: tool for tool in tools}: a later tool of the same id wins
tool_map(tools) ==
    [k \in {tools[i].tool_id : i \in 1..Len(tools)} |->
        tools[CHOOSE i \in 1..Len(tools) :
                 /\ tools[i].tool_id = k
                 /\ \A j \in 1..Len(tools) : tools[j].tool_id = k => j <= i]]

\* {o.id: o for o in objs}
id_map(objs) ==
    [k \in {objs[i].id : i \in 1..Len(objs)} |->
        objs[CHOOSE i \in 1..Len(objs) :
                /\ objs[i].id = k
                /\ \A j \in 1..Len(objs) : objs[j].id = k => j <= i]]

\* a resolution that takes every id of the list once
ResolveEachOnce(ids, m) ==
    LET kept == SelectSeq(ids.l, LAMBDA x : x.t = "str" /\ x.s \in DOMAIN m)
        firsts == {k \in 1..Len(kept) : \A j \in 1..(k - 1) : kept[j] # kept[k]}
        once == SelectSeq([k \in 1..Len(kept) |-> [k |-> k, x |-> kept[k]]],
                          LAMBDA e : e.k \in firsts)
    IN  [i \in 1..Len(once) |-> m[once[i].x.s]]

\* [m[x] for x in ids if x in m], ids a JSON list of strings
Resolve(ids, m) ==
    LET kept == SelectSeq(ids.l, LAMBDA x : x.t = "str" /\ x.s \in DOMAIN m)
    IN  [i \in 1..Len(kept) |-> m[kept[i].s]]

\* m.get(key), key a JSON string or null
MapGet(m, key) == IF key.t = "str" /\ key.s \in DOMAIN m THEN m[key.s] ELSE PyNone

load_tools(db, call) ==
    LET rows == load_entities(db, "tool")
    IN  IF \E i \in 1..Len(rows) :
              \/ ~HasKey(rows[i][2], "name")
              \/ DictGet(rows[i][2], "name", PyNone).s \notin TOOL_CLASSES
              \/ ~HasKey(rows[i][2], "parameters")
        THEN Raise("KeyError")
        ELSE Ok([i \in 1..Len(rows) |->
                    [tool_id |-> rows[i][1],
                     name |-> DictGet(rows[i][2], "name", PyNone).s,
                     parameters |-> DictGet(rows[i][2], "parameters", PyNone),
                     obj |-> call]])

load_knowledge_sources(db, call) ==
    LET rows == load_entities(db, "knowledge_source")
    IN  Ok(sorted_by_created_at(
            [i \in 1..Len(rows) |->
                [id |-> rows[i][1],
                 created_at |-> DictGet(rows[i][2], "created_at", PyNone),
                 obj |-> call]]))

load_agents(db, tools, call) ==
    LET rows == load_entities(db, "agent")
        src  == IF tools.given /\ Len(tools.v) > 0 THEN Ok(tools.v)
                ELSE load_tools(db, Append(call, "load_tools"))
    IN  IF ~src.ok THEN src
        ELSE Ok(sorted_by_created_at(
                [i \in 1..Len(rows) |->
                    [id |-> rows[i][1],
                     created_at |-> DictGet(rows[i][2], "created_at", PyNone),
                     tools |-> Resolve(DictGet(rows[i][2], "tool_ids", PyList(<<>>)),
                                       tool_map(src.v)),
                     obj |-> call]]))

load_tasks(db, agents, call) ==
    LET rows == load_entities(db, "task")
        src  == IF agents.given /\ Len(agents.v) > 0 THEN Ok(agents.v)
                ELSE load_agents(db, NoArg, Append(call, "load_agents"))
    IN  IF ~src.ok THEN src
        ELSE Ok(sorted_by_created_at(
                [i \in 1..Len(rows) |->
                    [id |-> rows[i][1],
                     created_at |-> DictGet(rows[i][2], "created_at", PyNone),
                     agent |-> MapGet(id_map(src.v), DictGet(rows[i][2], "agent_id", PyNone)),
                     obj |-> call]]))

load_crews(db, agents, tasks, call) ==
    LET rows == load_entities(db, "crew")
        asrc == IF agents.given /\ Len(agents.v) > 0 THEN Ok(agents.v)
                ELSE load_agents(db, NoArg, Append(call, "load_agents"))
        tsrc == IF tasks.given /\ Len(tasks.v) > 0 THEN Ok(tasks.v)
                ELSE load_tasks(db, NoArg, Append(call, "load_tasks"))
    IN  IF ~asrc.ok THEN asrc
        ELSE IF ~tsrc.ok THEN tsrc
        ELSE IF \E i \in 1..Len(rows) :
                  {"created_at", "agent_ids", "task_ids"} \ DictKeys(rows[i][2]) # {}
        THEN Raise("KeyError")
        ELSE Ok(sorted_by_created_at(
                [i \in 1..Len(rows) |->
                    [id |-> rows[i][1],
                     created_at |-> DictGet(rows[i][2], "created_at", PyNone),
                     manager_agent |-> MapGet(id_map(asrc.v),
                                              DictGet(rows[i][2], "manager_agent_id", PyNone)),
                     agents |-> Resolve(DictGet(rows[i][2], "agent_ids", PyNone), id_map(asrc.v)),
                     tasks |-> Resolve(DictGet(rows[i][2], "task_ids", PyNone), id_map(tsrc.v)),
                     obj |-> call]]))

load_all_entities(db) ==
    LET tools  == load_tools(db, <<"load_tools">>)
        ks     == load_knowledge_sources(db, <<"load_knowledge_sources">>)
        agents == load_agents(db, Arg(tools.v), <<"load_agents">>)
        tasks  == load_tasks(db, Arg(agents.v), <<"load_tasks">>)
        crews  == load_crews(db, Arg(agents.v), Arg(tasks.v), <<"load_crews">>)
    IN  IF ~tools.ok THEN tools
        ELSE IF ~agents.ok THEN agents
        ELSE IF ~tasks.ok THEN tasks
        ELSE IF ~crews.ok THEN crews
        ELSE Ok([agents |-> agents.v, tasks |-> tasks.v, crews |-> crews.v,
                 tools |-> tools.v, knowledge_sources |-> ks.v])

(***************************************************************************)
(* Bounds and the inputs the operations are called with.                   *)
(***************************************************************************)
\* writes (save, delete, import) in one behaviour
MaxWrites == 2
\* entities in one imported file
MaxImport == 2

Ids == {"enabled_tools", "e1", "e2"}
EntityTypes == {"agent", "task", "crew", "tool", "knowledge_source", "result", "tools_state"}

\* An object gets its created_at when it is made and keeps it over every save.
CreatedAtOf(i) == PyInt(IF i = "e1" THEN 2 ELSE 1)

\* the references an object of id i holds: up to two of the other ids, in any order
RefLists(i) ==
    {<<>>} \cup {<<x>> : x \in Ids \ {i}} \cup {<<x, y>> : x, y \in Ids \ {i}}
Refs(ids) == [k \in 1..Len(ids) |-> [id |-> ids[k], tool_id |-> ids[k]]]
Reverse(ids) == [k \in 1..Len(ids) |-> ids[Len(ids) + 1 - k]]
OptRef(i) == {PyNone} \cup {[id |-> x] : x \in Ids \ {i}}
NoParameters == PyDict(<<>>)

AgentInputs ==
    UNION {{[id |-> i, created_at |-> CreatedAtOf(i), tools |-> Refs(r)] : r \in RefLists(i)} :
              i \in Ids}
TaskInputs ==
    UNION {{[id |-> i, created_at |-> CreatedAtOf(i), agent |-> a] : a \in OptRef(i)} :
              i \in Ids}
\* a crew lists its members once for agents and in the opposite order for tasks;
\* its manager, if any, is the member it lists first
CrewInputs ==
    UNION {{[id |-> i, created_at |-> CreatedAtOf(i), agents |-> Refs(r),
             tasks |-> Refs(Reverse(r)),
             manager_agent |-> IF r = <<>> THEN PyNone ELSE [id |-> r[1]]] : r \in RefLists(i)} :
              i \in Ids}
ToolInputs == {[tool_id |-> i, name |-> n, parameters |-> NoParameters] :
                    i \in Ids, n \in TOOL_CLASSES}
KnowledgeSourceInputs == {[id |-> i, created_at |-> CreatedAtOf(i)] : i \in Ids}
ResultInputs == {[id |-> i, created_at |-> CreatedAtOf(i)] : i \in Ids}
EnabledToolsInputs == {PyDict(<<>>), PyDict(<<Item("CustomApiTool", PyBool(TRUE))>>)}

\* entities of an exported file: a tool of a class this installation lacks, an
\* agent under the same id, and a tool the agent uses
ImportEntities ==
    {[id |-> "e1", entity_type |-> "tool",
      data |-> PyDict(<<Item("name", PyStr("RetiredTool")), Item("parameters", NoParameters)>>)],
     [id |-> "e1", entity_type |-> "agent",
      data |-> PyDict(<<Item("created_at", PyInt(2)), Item("tool_ids", StrList(<<"e2">>))>>)],
     [id |-> "e2", entity_type |-> "tool",
      data |-> PyDict(<<Item("name", PyStr("CustomApiTool")), Item("parameters", NoParameters)>>)]}
ImportFiles == UNION {[1..n -> ImportEntities] : n \in 0..MaxImport}

(***************************************************************************)
(* What the save_* functions write.                                        *)
(***************************************************************************)
agent_data(agent) ==
    PyDict(<<Item("created_at", agent.created_at),
             Item("tool_ids", StrList([k \in 1..Len(agent.tools) |-> agent.tools[k].tool_id]))>>)

task_data(task) ==
    PyDict(<<Item("agent_id", IF task.agent = PyNone THEN PyNone ELSE PyStr(task.agent.id)),
             Item("created_at", task.created_at)>>)

crew_data(crew) ==
    PyDict(<<Item("agent_ids", StrList([k \in 1..Len(crew.agents) |-> crew.agents[k].id])),
             Item("task_ids", StrList([k \in 1..Len(crew.tasks) |-> crew.tasks[k].id])),
             Item("manager_agent_id",
                  IF crew.manager_agent = PyNone THEN PyNone ELSE PyStr(crew.manager_agent.id)),
             Item("created_at", crew.created_at)>>)

tool_data(tool) ==
    PyDict(<<Item("name", PyStr(tool.name)), Item("parameters", tool.parameters)>>)

knowledge_source_data(ks) == PyDict(<<Item("created_at", ks.created_at)>>)

result_data(result) == PyDict(<<Item("created_at", result.created_at)>>)

\* every save_entity(entity_type, entity_id, data) call the save_* functions make
SaveCalls ==
    {<<"agent", o.id, agent_data(o)>> : o \in AgentInputs}
    \cup {<<"task", o.id, task_data(o)>> : o \in TaskInputs}
    \cup {<<"crew", o.id, crew_data(o)>> : o \in CrewInputs}
    \cup {<<"tool", o.tool_id, tool_data(o)>> : o \in ToolInputs}
    \cup {<<"knowledge_source", o.id, knowledge_source_data(o)>> : o \in KnowledgeSourceInputs}
    \cup {<<"result", o.id, result_data(o)>> : o \in ResultInputs}
    \cup {<<"tools_state", "enabled_tools", PyDict(<<Item("enabled_tools", o)>>)>> : o \in EnabledToolsInputs}

(***************************************************************************)
(* State.  store is the table.  last is the last call this session made,   *)
(* with the branch of the SQL statement it took or the value it returned.  *)
(* nwrites counts the writes.  pc and frame are the position and the       *)
(* locals of a load_all_entities call that other sessions write during.    *)
(***************************************************************************)
VARIABLES store, last, nwrites, pc, frame

vars == <<store, last, nwrites, pc, frame>>

NoFrame == [tools |-> <<>>, knowledge_sources |-> <<>>, agents |-> <<>>,
            tasks |-> <<>>, crews |-> <<>>]

Init ==
    /\ store = <<>>
    /\ last = [op |-> "initialize_db"]
    /\ nwrites = 0
    /\ pc = "load_tools"
    /\ frame = NoFrame

(***************************************************************************)
(* One session, as app.main runs it: every script run first loads the      *)
(* data, then draws the page, whose handler may write; the write triggers  *)
(* the next run.  A load that raises ends the run before the page is       *)
(* drawn.                                                                  *)
(***************************************************************************)
PageDrawn == last.op = "load_all_entities" /\ last.result.ok

Write(db, call) ==
    /\ PageDrawn
    /\ nwrites < MaxWrites
    /\ nwrites' = nwrites + 1
    /\ store' = db
    /\ last' = call
    /\ UNCHANGED <<pc, frame>>

\* which branch of the statement a call takes in table db
HasRow(db, id) == \E k \in 1..Len(db) : db[k].id = id
TypeOf(db, id) == db[CHOOSE k \in 1..Len(db) : db[k].id = id].entity_type

SaveCase(db, etype, id) ==
    IF ~HasRow(db, id) THEN "inserted"
    ELSE IF TypeOf(db, id) = etype THEN "updated" ELSE "retyped"

DeleteCase(db, etype, id) ==
    IF ~HasRow(db, id) THEN "no_row"
    ELSE IF TypeOf(db, id) = etype THEN "deleted" ELSE "other_type"

Saved(etype, id, data) ==
    Write(save_entity(store, etype, id, data),
          [op |-> "save_entity", case |-> SaveCase(store, etype, id),
           entity_type |-> etype, id |-> id, data |-> data])

Deleted(etype, id) ==
    Write(delete_entity(store, etype, id),
          [op |-> "delete_entity", case |-> DeleteCase(store, etype, id),
           entity_type |-> etype, id |-> id])

save_agent == \E agent \in AgentInputs : Saved("agent", agent.id, agent_data(agent))
save_task == \E task \in TaskInputs : Saved("task", task.id, task_data(task))
save_crew == \E crew \in CrewInputs : Saved("crew", crew.id, crew_data(crew))
save_tool == \E tool \in ToolInputs : Saved("tool", tool.tool_id, tool_data(tool))
save_knowledge_source ==
    \E ks \in KnowledgeSourceInputs : Saved("knowledge_source", ks.id, knowledge_source_data(ks))
save_result == \E result \in ResultInputs : Saved("result", result.id, result_data(result))

SaveToolsState ==
    \E enabled_tools \in EnabledToolsInputs :
        Write(save_tools_state(store, enabled_tools),
              [op |-> "save_entity",
               case |-> SaveCase(store, "tools_state", "enabled_tools"),
               entity_type |-> "tools_state", id |-> "enabled_tools",
               data |-> PyDict(<<Item("enabled_tools", enabled_tools)>>)])

delete_agent == \E i \in Ids : Deleted("agent", i)
delete_task == \E i \in Ids : Deleted("task", i)
delete_crew == \E i \in Ids : Deleted("crew", i)
delete_tool == \E i \in Ids : Deleted("tool", i)
delete_knowledge_source == \E i \in Ids : Deleted("knowledge_source", i)
delete_result == \E i \in Ids : Deleted("result", i)

ImportFromJson ==
    \E file \in ImportFiles :
        Write(import_from_json(store, file), [op |-> "import_from_json", n |-> Len(file)])

LoadData ==
    /\ last.op # "load_all_entities"
    /\ last' = [op |-> "load_all_entities", result |-> load_all_entities(store)]
    /\ UNCHANGED <<store, nwrites, pc, frame>>

Next ==
    \/ save_agent \/ save_task \/ save_crew \/ save_tool
    \/ save_knowledge_source \/ save_result \/ SaveToolsState
    \/ delete_agent \/ delete_task \/ delete_crew \/ delete_tool
    \/ delete_knowledge_source \/ delete_result
    \/ ImportFromJson
    \/ LoadData

Spec == Init /\ [][Next]_vars

(***************************************************************************)
(* load_all_entities while other sessions write: its five loader calls are *)
(* five steps, and a save or delete of another session may fall between    *)
(* any two of them.  (Each loader call is taken as one step, the reads it  *)
(* makes itself included.)                                                 *)
(***************************************************************************)
Step(r, field, next) ==
    /\ IF r.ok
       THEN /\ frame' = [frame EXCEPT ![field] = r.v]
            /\ pc' = next
       ELSE /\ frame' = frame
            /\ pc' = "raised"
    /\ UNCHANGED <<store, last, nwrites>>

CallLoadTools ==
    /\ pc = "load_tools"
    /\ Step(load_tools(store, <<"load_tools">>), "tools", "load_knowledge_sources")

CallLoadKnowledgeSources ==
    /\ pc = "load_knowledge_sources"
    /\ Step(load_knowledge_sources(store, <<"load_knowledge_sources">>),
            "knowledge_sources", "load_agents")

CallLoadAgents ==
    /\ pc = "load_agents"
    /\ Step(load_agents(store, Arg(frame.tools), <<"load_agents">>), "agents", "load_tasks")

CallLoadTasks ==
    /\ pc = "load_tasks"
    /\ Step(load_tasks(store, Arg(frame.agents), <<"load_tasks">>), "tasks", "load_crews")

CallLoadCrews ==
    /\ pc = "load_crews"
    /\ Step(load_crews(store, Arg(frame.agents), Arg(frame.tasks), <<"load_crews">>),
            "crews", "returned")

Loading == pc \notin {"returned", "raised"}

OtherSessionSaves ==
    /\ Loading
    /\ nwrites < MaxWrites
    /\ \E c \in SaveCalls : store' = save_entity(store, c[1], c[2], c[3])
    /\ nwrites' = nwrites + 1
    /\ UNCHANGED <<last, pc, frame>>

OtherSessionDeletes ==
    /\ Loading
    /\ nwrites < MaxWrites
    /\ \E t \in EntityTypes \ {"tools_state"}, i \in Ids : store' = delete_entity(store, t, i)
    /\ nwrites' = nwrites + 1
    /\ UNCHANGED <<last, pc, frame>>

NextConcurrent ==
    \/ CallLoadTools \/ CallLoadKnowledgeSources \/ CallLoadAgents
    \/ CallLoadTasks \/ CallLoadCrews
    \/ OtherSessionSaves \/ OtherSessionDeletes

SpecConcurrent == Init /\ [][NextConcurrent]_vars

(***************************************************************************)
(* Vocabulary of the properties.                                           *)
(***************************************************************************)
InList(seq, x) == \E k \in 1..Len(seq) : seq[k] = x
UniqueIds(db) == \A j, k \in 1..Len(db) : db[j].id = db[k].id => j = k
RowsWithId(db, id) == SelectSeq(db, LAMBDA r : r.id = id)
RowsOther(db, id) == SelectSeq(db, LAMBDA r : r.id # id)
IdsOfType(db, etype) == {db[k].id : k \in {j \in 1..Len(db) : db[j].entity_type = etype}}
EntriesWithId(entries, id) == SelectSeq(entries, LAMBDA e : e[1] = id)
StoredData(db, id) == json_loads(db[CHOOSE k \in 1..Len(db) : db[k].id = id].data)
IdList(objs) == [k \in 1..Len(objs) |-> objs[k].id]
ToolIdList(tools) == [k \in 1..Len(tools) |-> tools[k].tool_id]
Range(seq) == {seq[k] : k \in 1..Len(seq)}
NoRepeats(seq) == \A j, k \in 1..Len(seq) : seq[j] = seq[k] => j = k
\* the ids of a stored JSON list, restricted to the ids in S, in stored order
StoredIn(list, S) ==
    LET kept == SelectSeq(list.l, LAMBDA x : x.s \in S)
    IN  [k \in 1..Len(kept) |-> kept[k].s]
Loaded == last.op = "load_all_entities" /\ last.result.ok

\* C1: save_entity is an upsert.  Whenever save_entity(entity_type, entity_id,
\* data) returns, exactly one row has id entity_id, that row has the given type
\* and data, load_entities(entity_type) contains (entity_id, data), and the rows
\* of every other id are as they were; and after every step, of save, delete or
\* import, no two rows share an id.
C1_SaveIsUpsert ==
    [][/\ UniqueIds(store')
       /\ last'.op = "save_entity" =>
             LET hit == RowsWithId(store', last'.id)
             IN  /\ Len(hit) = 1
                 /\ hit[1].entity_type = last'.entity_type
                 /\ json_loads(hit[1].data) = last'.data
                 /\ InList(load_entities(store', last'.entity_type),
                           <<last'.id, last'.data>>)
                 /\ RowsOther(store', last'.id) = RowsOther(store, last'.id)]_vars

\* C1 witness: a save has updated the row of an id in place, beside another row.
C1_Witness ==
    /\ last.op = "save_entity"
    /\ last.case = "updated"
    /\ Len(store) = 2

\* C2, as the spec states it: an entity is keyed by id and type, so a save under
\* one type leaves every entity of another type in place, also one of the same
\* id: when save_entity(t2, x, d2) returns, every (x, d1) that load_entities
\* returned for another type t1 is still returned for t1, and load_entities(t2)
\* contains (x, d2).
C2_KeyedByIdAndType ==
    [][last'.op = "save_entity" =>
          /\ InList(load_entities(store', last'.entity_type), <<last'.id, last'.data>>)
          /\ \A k \in 1..Len(store) :
                (store[k].id = last'.id /\ store[k].entity_type # last'.entity_type)
                => InList(load_entities(store', store[k].entity_type),
                          <<store[k].id, json_loads(store[k].data)>>)]_vars

\* C2, amended: an entity is keyed by its id alone.  When save_entity(t2, x, d2)
\* returns on a table that held a row of id x and another type t1:
\* load_entities(t2) contains (x, d2), load_entities(t1) has no entry of id x any
\* more, and for every type the entries of every other id are as they were (the
\* tools_state row of id "enabled_tools" is replaced like any other).
C2_KeyedByIdAlone ==
    [][(/\ last'.op = "save_entity"
        /\ HasRow(store, last'.id)
        /\ TypeOf(store, last'.id) # last'.entity_type) =>
          LET t1 == TypeOf(store, last'.id)
          IN  /\ InList(load_entities(store', last'.entity_type), <<last'.id, last'.data>>)
              /\ EntriesWithId(load_entities(store, t1), last'.id) # <<>>
              /\ EntriesWithId(load_entities(store', t1), last'.id) = <<>>
              /\ \A t \in EntityTypes :
                    SelectSeq(load_entities(store', t), LAMBDA e : e[1] # last'.id)
                    = SelectSeq(load_entities(store, t), LAMBDA e : e[1] # last'.id)]_vars

\* C2 witness: a save under another type has taken over the row of the
\* tools_state entity, and the tools state reads as empty.
C2_Witness ==
    /\ last.op = "save_entity"
    /\ last.case = "retyped"
    /\ last.id = "enabled_tools"
    /\ last.entity_type = "tool"
    /\ load_tools_state(store) = PyDict(<<>>)

\* C5: delete_entity(entity_type, entity_id) removes that entity and nothing
\* else.  When it returns, no row has both that id and that type; when no row
\* had both, the table is as it was; and in every case the rows of every other
\* id are as they were, their stored references to the deleted id included.
C5_DeleteRemovesOnlyThatEntity ==
    [][last'.op = "delete_entity" =>
          /\ \A k \in 1..Len(store') :
                ~(store'[k].id = last'.id /\ store'[k].entity_type = last'.entity_type)
          /\ (\A k \in 1..Len(store) :
                ~(store[k].id = last'.id /\ store[k].entity_type = last'.entity_type))
             => store' = store
          /\ RowsOther(store', last'.id) = RowsOther(store, last'.id)]_vars

\* the ids a stored row refers to
ReferencedIds(data) ==
    UNION {IF data.items[k].v.t = "list" THEN {x.s : x \in Range(data.items[k].v.l)}
           ELSE IF data.items[k].k \in {"agent_id", "manager_agent_id"}
                   /\ data.items[k].v.t = "str"
                THEN {data.items[k].v.s}
           ELSE {} : k \in 1..Len(data.items)}

\* C5 witness: a delete has removed a row, and the table still holds a row that
\* refers to the deleted id.
C5_Witness ==
    /\ last.op = "delete_entity"
    /\ last.case = "deleted"
    /\ ~HasRow(store, last.id)
    /\ \E k \in 1..Len(store) : last.id \in ReferencedIds(json_loads(store[k].data))

\* what load_all_entities returned, and the stored references of a returned object
Returned == last.result.v
StoredField(id, key, default) == DictGet(StoredData(store, id), key, default)
LoadedIds(objs) == Range(IdList(objs))
AllIn(members, list) == \A k \in 1..Len(members) : InList(list, members[k])
\* the loaded object of the stored id, or None
IsLoadedOrNone(obj, sid, list) ==
    IF sid.t = "str" /\ sid.s \in LoadedIds(list)
    THEN obj # PyNone /\ obj.id = sid.s /\ InList(list, obj)
    ELSE obj = PyNone

C4_LoadsAllEntities ==
    [][last'.op = "load_all_entities" =>
          /\ store' = store
          /\ last'.result.ok =>
                LET r == last'.result.v
                    Exactly(ids, etype) ==
                        NoRepeats(ids) /\ Range(ids) = IdsOfType(store, etype)
                IN  /\ Exactly(IdList(r.agents), "agent")
                    /\ Exactly(IdList(r.tasks), "task")
                    /\ Exactly(IdList(r.crews), "crew")
                    /\ Exactly(ToolIdList(r.tools), "tool")
                    /\ Exactly(IdList(r.knowledge_sources), "knowledge_source")]_vars

\* C4 witness: load_all_entities has returned two agents of one created_at.
C4_Witness ==
    /\ Loaded
    /\ Len(Returned.agents) = 2
    /\ Returned.agents[1].created_at = Returned.agents[2].created_at

\* C6: the result of load_all_entities is referentially closed also when other
\* sessions save and delete between its five reads: every tool of a returned
\* agent is one of the returned tools, every task's agent that is not None is
\* one of the returned agents, and every agent, task and manager of a returned
\* crew is one of the returned agents and tasks, the same object.
C6_ReferentiallyClosed ==
    pc = "returned" =>
        /\ \A k \in 1..Len(frame.agents) : AllIn(frame.agents[k].tools, frame.tools)
        /\ \A k \in 1..Len(frame.tasks) :
              frame.tasks[k].agent # PyNone => InList(frame.agents, frame.tasks[k].agent)
        /\ \A k \in 1..Len(frame.crews) :
              /\ AllIn(frame.crews[k].agents, frame.agents)
              /\ AllIn(frame.crews[k].tasks, frame.tasks)
              /\ frame.crews[k].manager_agent # PyNone
                 => InList(frame.agents, frame.crews[k].manager_agent)

====
